---- MODULE Spec2Model ----
(***************************************************************************)
(* Model of appabuild's impact model builder                               *)
(* (src/appabuild/model/builder.py): the walk of the activity graph that   *)
(* builds the tree of symbolic formulas, the registry of activity symbols, *)
(* the extraction of the used parameters and the substitution of the       *)
(* background impacts.                                                     *)
(*                                                                         *)
(* Strings the code transforms (display names, symbol names, method names) *)
(* are sequences of one-character strings.  Symbolic expressions (sympy)   *)
(* are polynomials in canonical form with rational coefficients: a set of  *)
(* terms [m |-> monomial, c |-> <<num, den>>], at most one term per        *)
(* monomial and no term with a zero coefficient, so that equal expressions *)
(* are equal values and the free symbols are those that survive            *)
(* cancellation, as in sympy.                                              *)
(***************************************************************************)
EXTENDS Integers, Sequences, FiniteSets, TLC

\* ------------------------------------------------------------ rationals

Abs(n) == IF n < 0 THEN -n ELSE n

RECURSIVE Gcd(_, _)
Gcd(a, b) == IF b = 0 THEN a ELSE Gcd(b, a % b)

\* <<n, d>> in lowest terms with d > 0
Rat(n, d) ==
    LET g == Gcd(Abs(n), Abs(d))
        s == IF d < 0 THEN -1 ELSE 1
    IN <<(s * n) \div g, (s * d) \div g>>

RZero == <<0, 1>>
ROne == <<1, 1>>
RInt(n) == <<n, 1>>
RAdd(a, b) == Rat(a[1] * b[2] + b[1] * a[2], a[2] * b[2])
RMul(a, b) == Rat(a[1] * b[1], a[2] * b[2])
RNeg(a) == <<-a[1], a[2]>>
RDivInt(a, k) == Rat(a[1], a[2] * k)

RECURSIVE RPow(_, _)
RPow(a, n) == IF n = 0 THEN ROne ELSE RMul(a, RPow(a, n - 1))

\* The sum of the coefficients t.c of the members t of the finite set T.
RECURSIVE RSum(_)
RSum(T) ==
    IF T = {} THEN RZero
    ELSE LET t == CHOOSE y \in T : TRUE
         IN RAdd(t.c, RSum(T \ {t}))

\* ---------------------------------------------------------- expressions

\* A monomial: symbol -> exponent (>= 1), the empty function for 1.
MonoOne == [s \in {} |-> 0]
MonoSym(s) == [x \in {s} |-> 1]
MonoExp(m, s) == IF s \in DOMAIN m THEN m[s] ELSE 0
MonoMul(a, b) == [s \in DOMAIN a \cup DOMAIN b |-> MonoExp(a, s) + MonoExp(b, s)]
MonoDrop(m, S) == [s \in DOMAIN m \ S |-> m[s]]

PZero == {}
PConst(r) == IF r[1] = 0 THEN {} ELSE {[m |-> MonoOne, c |-> r]}
PInt(n) == PConst(RInt(n))
PSym(s) == {[m |-> MonoSym(s), c |-> ROne]}
Monos(p) == {t.m : t \in p}

\* The canonical polynomial of a family T of tagged terms
\* [k |-> tag, m |-> monomial, c |-> coefficient]: the terms of one monomial
\* are summed and the zero terms dropped.
Collect(T) ==
    LET sum(m) == RSum({t \in T : t.m = m})
    IN {[m |-> m, c |-> sum(m)] : m \in {mm \in {t.m : t \in T} : sum(mm)[1] # 0}}

PAdd(p, q) ==
    Collect({[k |-> <<1, t>>, m |-> t.m, c |-> t.c] : t \in p}
            \cup {[k |-> <<2, t>>, m |-> t.m, c |-> t.c] : t \in q})

PMul(p, q) ==
    Collect({[k |-> t, m |-> MonoMul(t[1].m, t[2].m), c |-> RMul(t[1].c, t[2].c)] :
             t \in p \X q})

PNeg(p) == {[m |-> t.m, c |-> RNeg(t.c)] : t \in p}
PDivInt(p, k) == {[m |-> t.m, c |-> RDivInt(t.c, k)] : t \in p}

\* sympy's expr.free_symbols
FreeSymbols(p) == UNION {DOMAIN t.m : t \in p}

\* sympy's expr.xreplace(sub), sub a function from symbols to rationals
RECURSIVE MonoValue(_, _, _)
MonoValue(m, S, sub) ==
    IF S = {} THEN ROne
    ELSE LET s == CHOOSE x \in S : TRUE
         IN RMul(RPow(sub[s], m[s]), MonoValue(m, S \ {s}, sub))

XReplace(p, sub) ==
    Collect({[k |-> t, m |-> MonoDrop(t.m, DOMAIN sub),
              c |-> RMul(t.c, MonoValue(t.m, DOMAIN t.m \cap DOMAIN sub, sub))] :
             t \in p})

\* -------------------------------------------------------------- strings

Str1(a) == <<a>>
Alnum ==
    {"a", "b", "c", "d", "e", "f", "g", "h", "i", "j", "k", "l", "m", "n", "o",
     "p", "q", "r", "s", "t", "u", "v", "w", "x", "y", "z",
     "A", "B", "C", "D", "E", "F", "G", "H", "I", "J", "K", "L", "M", "N", "O",
     "P", "Q", "R", "S", "T", "U", "V", "W", "X", "Y", "Z",
     "0", "1", "2", "3", "4", "5", "6", "7", "8", "9"}

\* ImpactTreeNode.node_name_to_symbol_name: every character that is not
\* alphanumeric becomes an underscore.
node_name_to_symbol_name(name) ==
    [i \in 1..Len(name) |-> IF name[i] \in Alnum THEN name[i] ELSE "_"]

DigitChar(d) == <<"0", "1", "2", "3", "4", "5", "6", "7", "8", "9">>[d + 1]

\* str(i) for i >= 0
RECURSIVE IntToStr(_)
IntToStr(i) ==
    IF i < 10 THEN <<DigitChar(i)>>
    ELSE Append(IntToStr(i \div 10), DigitChar(i % 10))

\* a in b, for strings
IsSubstring(a, b) ==
    \E k \in 0..(Len(b) - Len(a)) : SubSeq(b, k + 1, k + Len(a)) = a

\* ---------------------------------------------- the databases (inputs)

UserDb == "user_database"
EcoDb == "ecoinvent"

KX == <<UserDb, "X">>
KA == <<UserDb, "A">>
KB == <<UserDb, "B">>
KY == <<EcoDb, "Y">>
KZ == <<EcoDb, "Z">>
ForegroundKeys == {KX, KA, KB}
BackgroundKeys == {KY, KZ}
Keys == ForegroundKeys \cup BackgroundKeys

\* amounts of exchanges: a number or a formula, or a function (opaque)
Num(n) == [kind |-> "expr", e |-> PInt(n)]
Par(n, p) == [kind |-> "expr", e |-> PMul(PInt(n), PSym(p))]
Func == [kind |-> "func", e |-> PZero]

Exch(in, out, amount, type) ==
    [input |-> in, output |-> out, amount |-> amount, type |-> type]

NameP == Str1("p")
NameQ == Str1("q")

XMenu ==
    { <<Exch(KY, KX, Par(2, NameP), "technosphere")>>,
      <<Exch(KX, KX, Num(1), "production"),
        Exch(KA, KX, Num(3), "technosphere"),
        Exch(KB, KX, Num(2), "technosphere")>>,
      <<Exch(KA, KX, Par(1, NameP), "production"),
        Exch(KY, KX, Func, "technosphere"),
        Exch(KZ, KX, Num(1), "technosphere")>>,
      <<Exch(KB, KX, Par(1, NameQ), "technosphere"),
        Exch(KY, KX, Num(2), "production")>> }

AMenu ==
    { <<Exch(KY, KA, Num(2), "technosphere")>>,
      <<Exch(KB, KA, Num(1), "technosphere"),
        Exch(KZ, KA, Par(1, NameP), "technosphere")>>,
      <<Exch(KX, KA, Num(1), "technosphere")>>,
      <<Exch(KA, KA, Num(2), "production"),
        Exch(KY, KA, Num(3), "production"),
        Exch(KB, KA, Num(2), "production")>> }

BMenu ==
    { << >>,
      <<Exch(KA, KB, Num(1), "technosphere")>>,
      <<Exch(KY, KB, Par(1, NameP), "technosphere"),
        Exch(KZ, KB, Num(2), "production"),
        Exch(KY, KB, Par(1, NameP), "production")>> }

Activity(name, tracked, out, exchs) ==
    [name |-> name, include_in_tree |-> tracked, outputAmount |-> out,
     exchanges |-> exchs]

\* the parameter catalog (parameters_registry): a list of parameters
Param(name, default) == [name |-> name, default |-> default]

CatalogMenu ==
    { <<Param(NameP, 1), Param(NameQ, 2)>>,
      <<Param(NameP, 1)>>,
      <<Param(NameP, 1), Param(NameQ, 2), Param(NameQ, 3)>>,
      <<Param(NameP, 1), Param(NameQ, 2), Param(<<"Y", "1">>, 1)>> }

\* bw.methods, each as the string str(method)
BwMethods ==
    { <<"G", "W", "P", "1", "0", "0">>, <<"G", "W", "P", "2", "0">>, <<"A", "P">> }

\* MethodFullName: Appa Run's method keys and the full names they stand for
MethodFullName ==
    [k \in {"CC100", "CC", "ACID", "OZONE"} |->
        CASE k = "CC100" -> <<"G", "W", "P", "1", "0", "0">>
          [] k = "CC" -> <<"G", "W", "P">>
          [] k = "ACID" -> <<"A", "P">>
          [] k = "OZONE" -> <<"O", "D", "P">>]

MethodsMenu ==
    { <<"CC100">>, <<"CC100", "ACID">>, <<"CC">>, <<"ACID", "OZONE">>,
      <<"ACID", "EUTRO">>, << >> }

\* the impact of one unit of a background activity, as the external impact
\* computation gives it
ImpactValue(key, method) ==
    CASE key = KY /\ method = <<"A", "P">> -> <<7, 2>>
      [] key = KY -> <<3, 1>>
      [] key = KZ /\ method = <<"A", "P">> -> <<0, 1>>
      [] OTHER -> <<5, 1>>

\* the depth of calls the interpreter allows
MaxDepth == 5

\* how many builds a process runs
MaxBuilds == 2

\* how many of a configuration's fields differ from the default configuration
MaxDeviations == 1

\* ------------------------------------------------------------ the state

VARIABLES
    db,              \* the Brightway databases: key -> activity
    foreground,      \* the databases lca_algebraic holds for foreground
    catalog,         \* parameters_registry, as a list
    fixed_params,    \* lca_algebraic's _fixed_params(): name -> default
    functional_unit, \* build_impact_model's argument
    methods,         \* build_impact_model's argument
    pc,              \* where the build is
    error,           \* the exception that ended the build, "" for none
    builds,          \* how many builds this process has started
    act_symbols,     \* the module's cache: list of [key, symbol, to_compile]
    functional_unit_bw,
    methods_bw,
    nodes,           \* the tree: list of nodes, each with its parent's index
    stack,           \* the frames of actToExpression / rec_func
    calls,           \* the rec_func calls that returned, with what they summed
    touched,         \* the keys act_to_symbol was called for in this build
    used_parameters, \* unique_used_parameters
    declared,        \* the names declared to lca_algebraic (newFloatParam)
    declared_now,    \* those of them this build declared
    pureTechActBySymbol,
    lca_requests,    \* the batched impact computations this build asked for
    lcas             \* (activity, method) -> impact

env == <<db, foreground, catalog, fixed_params>>
args == <<functional_unit, methods>>
walk == <<nodes, stack, calls, touched>>
tail == <<used_parameters, declared, declared_now, pureTechActBySymbol,
          lca_requests, lcas>>
vars == <<env, args, pc, error, builds, act_symbols, functional_unit_bw,
          methods_bw, walk, tail>>

\* ------------------------------------------------------- the registry

RegistryKeys(reg) == {reg[i].key : i \in DOMAIN reg}
RegistrySymbols(reg) == {reg[i].symbol : i \in DOMAIN reg}
SymbolOf(reg, key) == reg[CHOOSE i \in DOMAIN reg : reg[i].key = key].symbol
KeyOf(reg, sym) == reg[CHOOSE i \in DOMAIN reg : reg[i].symbol = sym].key

\* act_to_symbol with an if for its while: one suffix is tried, not all
FreeSlugOnce(reg, base_slug, slug, i) ==
    IF slug \in RegistrySymbols(reg) THEN base_slug \o IntToStr(i) ELSE slug

\* the while loop of act_to_symbol: base, base1, base2, ... until free
RECURSIVE FreeSlug(_, _, _, _)
FreeSlug(reg, base_slug, slug, i) ==
    IF slug \in RegistrySymbols(reg)
    THEN FreeSlug(reg, base_slug, base_slug \o IntToStr(i), i + 1)
    ELSE slug

\* the registry after act_to_symbol(sub_act, to_compile)
act_to_symbol(reg, key, name, to_compile) ==
    IF key \in RegistryKeys(reg) THEN reg
    ELSE LET base_slug == node_name_to_symbol_name(name)
         IN Append(reg, [key |-> key,
                         symbol |-> FreeSlug(reg, base_slug, base_slug, 1),
                         to_compile |-> to_compile])

\* ----------------------------------------------------------- the tree

Node(name, amount, parent) ==
    [name |-> name, amount |-> amount, parent |-> parent,
     raw |-> << >>, direct_impacts |-> << >>]

\* ImpactTreeNode.name_already_in_tree: the node's own name or one of its
\* ancestors'
RECURSIVE name_already_in_tree(_, _, _)
name_already_in_tree(tree, n, name) ==
    IF n = 0 THEN FALSE
    ELSE tree[n].name = name \/ name_already_in_tree(tree, tree[n].parent, name)

\* ----------------------------------------------------------- the build

IsForeground(dbname) == dbname \in foreground

Fail(e) ==
    /\ pc' = "failed"
    /\ error' = e

\* build_impact_model, lines 86-94: the functional unit by its name
FindFunctionalUnit ==
    /\ pc = "start"
    /\ LET found == {k \in Keys : k[1] = UserDb /\ db[k].name = functional_unit}
       IN IF Cardinality(found) # 1
          THEN /\ Fail("BwDatabaseError")
               /\ UNCHANGED functional_unit_bw
          ELSE /\ pc' = "methods"
               /\ functional_unit_bw' = CHOOSE k \in found : TRUE
               /\ UNCHANGED error
    /\ UNCHANGED <<env, args, builds, act_symbols, methods_bw, walk, tail>>

\* to_bw_method without its second check: the first of several matches is taken
MethodErrorFirstMatch(method) ==
    IF method \notin {"CC100", "CC", "ACID", "OZONE"} THEN "KeyError"
    ELSE IF {m \in BwMethods : IsSubstring(MethodFullName[method], m)} = {}
    THEN "BwMethodError"
    ELSE ""

\* to_bw_method's matches
matching_methods(method_full_name) ==
    {m \in BwMethods : IsSubstring(method_full_name, m)}

MethodError(method) ==
    IF method \notin DOMAIN MethodFullName THEN "KeyError"
    ELSE IF Cardinality(matching_methods(MethodFullName[method])) # 1
    THEN "BwMethodError"
    ELSE ""

to_bw_method(method) == CHOOSE m \in matching_methods(MethodFullName[method]) : TRUE

\* build_impact_tree_and_parameters, line 111
ResolveMethods ==
    /\ pc = "methods"
    /\ LET bad == {i \in DOMAIN methods : MethodError(methods[i]) # ""}
       IN IF bad # {}
          THEN /\ Fail(MethodError(methods[CHOOSE i \in bad : \A j \in bad : i <= j]))
               /\ UNCHANGED methods_bw
          ELSE /\ pc' = "root"
               /\ methods_bw' = [i \in DOMAIN methods |-> to_bw_method(methods[i])]
               /\ UNCHANGED error
    /\ UNCHANGED <<env, args, builds, act_symbols, functional_unit_bw, walk, tail>>

Frame(act, node, kind) ==
    [act |-> act, node |-> node, kind |-> kind, i |-> 1, res |-> PZero, log |-> << >>]

\* lines 112-114: the root node, and the call of actToExpression on it
CreateRoot ==
    /\ pc = "root"
    /\ nodes' = <<Node(db[functional_unit_bw].name, Num(1), 0)>>
    /\ stack' = <<Frame(functional_unit_bw, 1, "node")>>
    /\ pc' = "walk"
    /\ UNCHANGED <<env, args, error, builds, act_symbols, functional_unit_bw,
                   methods_bw, calls, touched, tail>>

\* ---------------------------------- actToExpression and its rec_func

Top == stack[Len(stack)]
TopExchanges == db[Top.act].exchanges
TopExch == TopExchanges[Top.i]
AtExchange ==
    /\ pc = "walk"
    /\ stack # << >>
    /\ IsForeground(Top.act[1])
    /\ Top.i <= Len(TopExchanges)

\* rec_func without lines 267-268
SkippedFunctionsOnly(exch) == exch.amount.kind = "func"

\* lines 262-268: amounts that are functions, and the exchange of an
\* activity with itself, are passed over
Skipped(exch) ==
    \/ exch.amount.kind = "func"
    \/ exch.input = exch.output

\* lines 294-300
avoidedBurden(exch) ==
    IF exch.type = "production" /\ ~(exch.input = exch.output) THEN -1 ELSE 1

\* line 304: amount * act_expr * avoidedBurden
Contribution(amount, act_expr, sign) == PMul(PMul(amount, act_expr), PInt(sign))

\* the frame after line 304 for its current exchange
Accumulate(frame, exch, amount, act_expr, child) ==
    LET term == Contribution(amount, act_expr, avoidedBurden(exch))
    IN [frame EXCEPT !.i = @ + 1,
                     !.res = PAdd(@, term),
                     !.log = Append(@, [exch |-> exch, amount |-> amount,
                                        act_expr |-> act_expr, term |-> term,
                                        child |-> child])]

ReplaceTop(frame) == [stack EXCEPT ![Len(stack)] = frame]

\* rec_func returning res as it is
NormalizeNot(res, outputAmount) == res

\* line 306
Normalize(res, outputAmount) == PDivInt(res, outputAmount)

\* lines 310-314: a float is simplified, any other expression has the fixed
\* parameters replaced by their default values
Finalize(expr) ==
    IF FreeSymbols(expr) = {} THEN expr
    ELSE XReplace(expr, [s \in DOMAIN fixed_params |-> RInt(fixed_params[s])])

\* lines 255-258: the activity is not of a foreground database
RootInBackground ==
    /\ pc = "walk"
    /\ stack # << >>
    /\ ~IsForeground(Top.act[1])
    /\ LET reg == act_to_symbol(act_symbols, Top.act, db[Top.act].name, TRUE)
           expr == PSym(SymbolOf(reg, Top.act))
       IN /\ act_symbols' = reg
          /\ nodes' = [nodes EXCEPT ![Top.node].raw = <<Finalize(expr)>>]
    /\ touched' = touched \cup {Top.act}
    /\ stack' = << >>
    /\ pc' = "params"
    /\ UNCHANGED <<env, args, error, builds, functional_unit_bw, methods_bw,
                   calls, tail>>

SkipExchange ==
    /\ AtExchange
    /\ Skipped(TopExch)
    /\ stack' = ReplaceTop([Top EXCEPT !.i = @ + 1])
    /\ UNCHANGED <<env, args, pc, error, builds, act_symbols, functional_unit_bw,
                   methods_bw, nodes, calls, touched, tail>>

\* lines 275-276: a background activity is referred to by its symbol
BackgroundExchange ==
    /\ AtExchange
    /\ ~Skipped(TopExch)
    /\ ~IsForeground(TopExch.input[1])
    /\ LET sub == TopExch.input
           reg == act_to_symbol(act_symbols, sub, db[sub].name, TRUE)
       IN /\ act_symbols' = reg
          /\ stack' = ReplaceTop(Accumulate(Top, TopExch, TopExch.amount.e,
                                            PSym(SymbolOf(reg, sub)), 0))
          /\ touched' = touched \cup {sub}
    /\ UNCHANGED <<env, args, pc, error, builds, functional_unit_bw, methods_bw,
                   nodes, calls, tail>>

ForegroundExchange ==
    /\ AtExchange
    /\ ~Skipped(TopExch)
    /\ IsForeground(TopExch.input[1])

\* lines 278-279
RecursiveActivity ==
    /\ ForegroundExchange
    /\ name_already_in_tree(nodes, Top.node, db[TopExch.input].name)
    /\ Fail("RecursiveActivity")
    /\ UNCHANGED <<env, args, builds, act_symbols, functional_unit_bw, methods_bw,
                   walk, tail>>

CanDescend ==
    /\ ForegroundExchange
    /\ ~name_already_in_tree(nodes, Top.node, db[TopExch.input].name)

\* the interpreter's limit on the depth of calls
RecursionError ==
    /\ CanDescend
    /\ Len(stack) >= MaxDepth
    /\ Fail("RecursionError")
    /\ UNCHANGED <<env, args, builds, act_symbols, functional_unit_bw, methods_bw,
                   walk, tail>>

\* lines 280-287: a tracked activity gets a child node and its own
\* actToExpression
TrackedExchange ==
    /\ CanDescend
    /\ Len(stack) < MaxDepth
    /\ db[TopExch.input].include_in_tree
    /\ nodes' = Append(nodes, Node(db[TopExch.input].name, TopExch.amount, Top.node))
    /\ stack' = Append(stack, Frame(TopExch.input, Len(nodes) + 1, "node"))
    /\ UNCHANGED <<env, args, pc, error, builds, act_symbols, functional_unit_bw,
                   methods_bw, calls, touched, tail>>

\* lines 291-292: any other foreground activity is expanded in place
InlineExchange ==
    /\ CanDescend
    /\ Len(stack) < MaxDepth
    /\ ~db[TopExch.input].include_in_tree
    /\ stack' = Append(stack, Frame(TopExch.input, Top.node, "inline"))
    /\ UNCHANGED <<env, args, pc, error, builds, act_symbols, functional_unit_bw,
                   methods_bw, nodes, calls, touched, tail>>

AtReturn ==
    /\ pc = "walk"
    /\ stack # << >>
    /\ IsForeground(Top.act[1])
    /\ Top.i > Len(TopExchanges)

Returned == Normalize(Top.res, db[Top.act].outputAmount)
Call == [act |-> Top.act, node |-> Top.node, kind |-> Top.kind, log |-> Top.log,
         value |-> Returned]
Caller == stack[Len(stack) - 1]
CallerExch == db[Caller.act].exchanges[Caller.i]
Pop(caller) == [SubSeq(stack, 1, Len(stack) - 1) EXCEPT ![Len(stack) - 1] = caller]

\* line 306 in a rec_func called at line 292, and lines 294-304 of its caller
ReturnInline ==
    /\ AtReturn
    /\ Top.kind = "inline"
    /\ calls' = Append(calls, Call)
    /\ stack' = Pop(Accumulate(Caller, CallerExch, CallerExch.amount.e, Returned, 0))
    /\ UNCHANGED <<env, args, pc, error, builds, act_symbols, functional_unit_bw,
                   methods_bw, nodes, touched, tail>>

\* lines 306-315 in an actToExpression called at line 282, and lines 288-304
\* of its caller: the amount is 1 and the expression 0
ReturnChild ==
    /\ AtReturn
    /\ Top.kind = "node"
    /\ Len(stack) > 1
    /\ calls' = Append(calls, Call)
    /\ nodes' = [nodes EXCEPT ![Top.node].raw = <<Finalize(Returned)>>]
    /\ stack' = Pop(Accumulate(Caller, CallerExch, PInt(1), PInt(0), Top.node))
    /\ UNCHANGED <<env, args, pc, error, builds, act_symbols, functional_unit_bw,
                   methods_bw, touched, tail>>

\* lines 306-315 in the actToExpression called at line 114
ReturnRoot ==
    /\ AtReturn
    /\ Len(stack) = 1
    /\ calls' = Append(calls, Call)
    /\ nodes' = [nodes EXCEPT ![Top.node].raw = <<Finalize(Returned)>>]
    /\ stack' = << >>
    /\ pc' = "params"
    /\ UNCHANGED <<env, args, error, builds, act_symbols, functional_unit_bw,
                   methods_bw, touched, tail>>

\* ------------------ build_impact_tree_and_parameters after the walk

Range(f) == {f[i] : i \in DOMAIN f}

\* lines 117-135 without the amounts of the nodes
free_symbols_of_formulas ==
    UNION {FreeSymbols(nodes[n].raw[1]) : n \in DOMAIN nodes}

\* lines 117-135: the free symbols of the raw formulas and of the amounts
free_symbols ==
    UNION {FreeSymbols(nodes[n].raw[1]) \cup FreeSymbols(nodes[n].amount.e) :
           n \in DOMAIN nodes}

\* line 136
activity_symbols == RegistrySymbols(act_symbols)

\* line 138
expected_parameter_symbols == free_symbols \ activity_symbols

\* ImpactModelParams.find_corresponding_parameter: the parameters of the
\* catalog a symbol's name stands for
find_corresponding_parameter(name) ==
    {i \in DOMAIN catalog : catalog[i].name = name}

\* lines 142-154 looking up the expected parameter symbols, not the symbols
\* of the activities
forbidden_among_expected ==
    {catalog[i].name : i \in UNION {find_corresponding_parameter(s) :
                                     s \in expected_parameter_symbols \cap activity_symbols}}

\* lines 142-154
forbidden_parameter_names ==
    {catalog[i].name : i \in UNION {find_corresponding_parameter(s) :
                                     s \in activity_symbols}}

\* lines 117-160
CheckParameterNames ==
    /\ pc = "params"
    /\ IF forbidden_parameter_names # {}
       THEN Fail("ForbiddenParameterNames")
       ELSE /\ pc' = "used"
            /\ UNCHANGED error
    /\ UNCHANGED <<env, args, builds, act_symbols, functional_unit_bw, methods_bw,
                   walk, tail>>

\* lines 162-172
FindUsedParameters ==
    /\ pc = "used"
    /\ IF \E s \in expected_parameter_symbols :
              Cardinality(find_corresponding_parameter(s)) # 1
       THEN /\ Fail("NoCorrespondingParameter")
            /\ UNCHANGED used_parameters
       ELSE /\ used_parameters' =
                   {catalog[CHOOSE i \in find_corresponding_parameter(s) : TRUE] :
                    s \in expected_parameter_symbols}
            /\ pc' = "declare"
            /\ UNCHANGED error
    /\ UNCHANGED <<env, args, builds, act_symbols, functional_unit_bw, methods_bw,
                   walk, declared, declared_now, pureTechActBySymbol,
                   lca_requests, lcas>>

\* lines 175-185
DeclareParameters ==
    /\ pc = "declare"
    /\ declared' = declared \cup {q.name : q \in used_parameters}
    /\ declared_now' = {q.name : q \in used_parameters}
    /\ pc' = "proxies"
    /\ UNCHANGED <<env, args, error, builds, act_symbols, functional_unit_bw,
                   methods_bw, walk, used_parameters, pureTechActBySymbol,
                   lca_requests, lcas>>

\* lines 189-195: symbol -> the proxy of its activity, for the symbols of the
\* cache that are to compile (a later entry of one symbol replaces an earlier)
to_compile_symbols ==
    {act_symbols[i].symbol : i \in {j \in DOMAIN act_symbols : act_symbols[j].to_compile}}

CreateProxies ==
    /\ pc = "proxies"
    /\ pureTechActBySymbol' =
          [s \in to_compile_symbols |->
              act_symbols[CHOOSE i \in DOMAIN act_symbols :
                             /\ act_symbols[i].symbol = s
                             /\ act_symbols[i].to_compile
                             /\ \A j \in DOMAIN act_symbols :
                                   (act_symbols[j].symbol = s /\ act_symbols[j].to_compile)
                                       => j <= i].key]
    /\ pc' = "lca"
    /\ UNCHANGED <<env, args, error, builds, act_symbols, functional_unit_bw,
                   methods_bw, walk, used_parameters, declared, declared_now,
                   lca_requests, lcas>>

\* line 198: one batched computation, activities x methods
ComputeLCA ==
    /\ pc = "lca"
    /\ lca_requests' = Append(lca_requests,
                              [acts |-> Range(pureTechActBySymbol),
                               methods |-> Range(methods_bw)])
    /\ lcas' = [am \in Range(pureTechActBySymbol) \X Range(methods_bw) |->
                   ImpactValue(am[1], am[2])]
    /\ pc' = "substitute"
    /\ UNCHANGED <<env, args, error, builds, act_symbols, functional_unit_bw,
                   methods_bw, walk, used_parameters, declared, declared_now,
                   pureTechActBySymbol>>

\* lines 205-210 with the method of the first pass of the loop
sub_of_first_method(method) ==
    [s \in DOMAIN pureTechActBySymbol |->
        lcas[<<pureTechActBySymbol[s], to_bw_method(methods[1])>>]]

\* lines 205-210
sub(method) ==
    [s \in DOMAIN pureTechActBySymbol |->
        lcas[<<pureTechActBySymbol[s], to_bw_method(method)>>]]

\* lines 201-212
Substitute ==
    /\ pc = "substitute"
    /\ nodes' = [n \in DOMAIN nodes |->
                    [nodes[n] EXCEPT !.direct_impacts =
                        [m \in Range(methods) |-> XReplace(nodes[n].raw[1], sub(m))]]]
    /\ pc' = "done"
    /\ UNCHANGED <<env, args, error, builds, act_symbols, functional_unit_bw,
                   methods_bw, stack, calls, touched, tail>>

\* ------------------------------------------------------ specifications

ANames == {Str1("A"), Str1("X")}
BNames == {Str1("B"), Str1("A")}
ZNames == {Str1("Z"), Str1("Y"), Str1("p")}
FuNames == {Str1("X"), Str1("A"), Str1("W")}
FixedMenu == {<< >>, [s \in {NameQ} |-> 2]}
ForegroundMenu == {{UserDb}, {}}

DefaultConfig ==
    [aname |-> Str1("A"), bname |-> Str1("B"), zname |-> Str1("Z"),
     catalog |-> <<Param(NameP, 1), Param(NameQ, 2)>>,
     methods |-> <<"CC100", "ACID">>, fu |-> Str1("X"),
     fixed |-> << >>, foreground |-> {UserDb}]

Deviations(c) ==
    Cardinality({f \in DOMAIN c : c[f] # DefaultConfig[f]})

Configs ==
    {c \in [aname : ANames, bname : BNames, zname : ZNames, catalog : CatalogMenu,
            methods : MethodsMenu, fu : FuNames, fixed : FixedMenu,
            foreground : ForegroundMenu] : Deviations(c) <= MaxDeviations}

Database(c, xs, as, bs, ta, tb) ==
    [k \in Keys |->
        CASE k = KX -> Activity(Str1("X"), TRUE, 1, xs)
          [] k = KA -> Activity(c.aname, ta, 2, as)
          [] k = KB -> Activity(c.bname, tb, 4, bs)
          [] k = KY -> Activity(Str1("Y"), FALSE, 1, << >>)
          [] k = KZ -> Activity(c.zname, FALSE, 1, << >>)]

\* the state of a process that has built nothing, about to build
InitFrom(configs) ==
    /\ \E c \in configs, xs \in XMenu, as \in AMenu, bs \in BMenu, ta, tb \in BOOLEAN :
          /\ db = Database(c, xs, as, bs, ta, tb)
          /\ foreground = c.foreground
          /\ catalog = c.catalog
          /\ fixed_params = c.fixed
          /\ functional_unit = c.fu
          /\ methods = c.methods
    /\ pc = "start"
    /\ error = ""
    /\ builds = 1
    /\ act_symbols = << >>
    /\ functional_unit_bw = << >>
    /\ methods_bw = << >>
    /\ nodes = << >>
    /\ stack = << >>
    /\ calls = << >>
    /\ touched = {}
    /\ used_parameters = {}
    /\ declared = {}
    /\ declared_now = {}
    /\ pureTechActBySymbol = << >>
    /\ lca_requests = << >>
    /\ lcas = << >>

Init == InitFrom(Configs)

Next ==
    \/ FindFunctionalUnit
    \/ ResolveMethods
    \/ CreateRoot
    \/ RootInBackground
    \/ SkipExchange
    \/ BackgroundExchange
    \/ RecursiveActivity
    \/ RecursionError
    \/ TrackedExchange
    \/ InlineExchange
    \/ ReturnInline
    \/ ReturnChild
    \/ ReturnRoot
    \/ CheckParameterNames
    \/ FindUsedParameters
    \/ DeclareParameters
    \/ CreateProxies
    \/ ComputeLCA
    \/ Substitute

Spec == Init /\ [][Next]_vars

\* ---------------------------------------------------------------- claims

\* What the claims say of the activity graph, read from the databases alone.

Traversed(exch) == exch.amount.kind = "expr" /\ exch.input # exch.output

\* the foreground activities an activity consumes directly
Consumes(a) ==
    {db[a].exchanges[i].input :
        i \in {j \in DOMAIN db[a].exchanges :
                  /\ Traversed(db[a].exchanges[j])
                  /\ db[a].exchanges[j].input[1] \in foreground}}

RECURSIVE Closure(_)
Closure(S) ==
    LET more == S \cup UNION {Consumes(a) : a \in S}
    IN IF more = S THEN S ELSE Closure(more)

\* the foreground activities the walk from the functional unit can meet
Reachable == Closure({functional_unit_bw})

\* some activity the walk can meet consumes itself, directly or not
Cyclic == \E a \in Reachable : a \in Closure(Consumes(a))

WalkBegun == nodes # << >> /\ functional_unit_bw[1] \in foreground
WalkOver == pc \in {"params", "used", "declare", "proxies", "lca", "substitute", "done"}
WalkFailed == pc = "failed" /\ stack # << >>
TreeBuilt == nodes # << >> /\ stack = << >>

\* C1: a graph in which a foreground activity consumes itself, through
\* tracked exchanges, inline ones or both, makes the walk abort with the
\* recursive-activity error: it never returns a tree, and it never exhausts
\* the interpreter's stack.
C1_CycleIsReported ==
    (WalkBegun /\ Cyclic) =>
        /\ ~WalkOver
        /\ WalkFailed => error = "RecursiveActivity"

\* the tree as nested records, children in the order they were created
RECURSIVE Subtree(_)
Subtree(n) ==
    LET kids == {c \in DOMAIN nodes : nodes[c].parent = n}
        RECURSIVE Seqd(_)
        Seqd(S) ==
            IF S = {} THEN << >>
            ELSE LET c == CHOOSE x \in S : \A y \in S : x <= y
                 IN <<Subtree(c)>> \o Seqd(S \ {c})
    IN [name |-> nodes[n].name, amount |-> nodes[n].amount.e, children |-> Seqd(kids)]

\* the subtrees the exchanges of an activity call for, in their order: one per
\* traversal of an exchange to a tracked activity, those of an activity
\* expanded in place taking its place
RECURSIVE ExpectedChildren(_)
ExpectedChildren(a) ==
    LET RECURSIVE From(_)
        From(i) ==
            IF i > Len(db[a].exchanges) THEN << >>
            ELSE LET e == db[a].exchanges[i]
                 IN (IF ~Traversed(e) \/ e.input[1] \notin foreground THEN << >>
                     ELSE IF db[e.input].include_in_tree
                     THEN <<[name |-> db[e.input].name, amount |-> e.amount.e,
                             children |-> ExpectedChildren(e.input)]>>
                     ELSE ExpectedChildren(e.input)) \o From(i + 1)
    IN From(1)

ExpectedTree ==
    [name |-> db[functional_unit_bw].name, amount |-> PInt(1),
     children |-> ExpectedChildren(functional_unit_bw)]

\* the tracked activities the walk can meet, and the functional unit
TrackedReachable ==
    {functional_unit_bw} \cup
    {a \in UNION {Consumes(b) : b \in Reachable} : db[a].include_in_tree}

DistinctNames ==
    \A a, b \in Reachable : db[a].name = db[b].name => a = b

\* C2 as stated: on an acyclic graph the walk ends without error and the tree
\* has exactly one node per tracked activity the walk can meet, also when an
\* activity is met along several paths or shares its name with another.
C2_OneNodePerActivity ==
    (WalkBegun /\ ~Cyclic) =>
        /\ error \notin {"RecursiveActivity", "RecursionError"}
        /\ WalkOver => Len(nodes) = Cardinality(TrackedReachable)

\* C2, amended: on an acyclic graph whose reachable foreground activities have
\* pairwise distinct names, the walk ends without error, never deeper than the
\* number of foreground activities, and the tree has exactly one node per
\* traversal of an exchange to a tracked activity (one per path to it), the
\* children in the order of the exchanges.
C2_OneNodePerTrackedPath ==
    (WalkBegun /\ ~Cyclic /\ DistinctNames) =>
        /\ error \notin {"RecursiveActivity", "RecursionError"}
        /\ Len(stack) <= Cardinality(Reachable)
        /\ WalkOver => Subtree(1) = ExpectedTree

\* an activity met along two paths: two nodes of one name under the root
C2_Witness ==
    /\ pc = "done"
    /\ ~Cyclic /\ DistinctNames
    /\ Len(nodes) > Cardinality(TrackedReachable)
    /\ \E n \in DOMAIN nodes : nodes[n].parent > 1

\* the method names of the request that do not match exactly one method
Ambiguous ==
    {i \in DOMAIN methods :
        /\ methods[i] \in DOMAIN MethodFullName
        /\ Cardinality({m \in BwMethods : IsSubstring(MethodFullName[methods[i]], m)}) # 1}

\* C6: a requested method that matches no method, or several, makes the build
\* fail with a lookup error before the root node exists, before any activity
\* is expanded and before any symbol is added to the registry.
C6_MethodLookupFirst ==
    Ambiguous # {} =>
        /\ pc \in {"start", "methods", "failed"}
        /\ pc = "failed" => error \in {"BwDatabaseError", "BwMethodError", "KeyError"}
        /\ nodes = << >> /\ stack = << >> /\ calls = << >> /\ act_symbols = << >>

C6_Witness ==
    /\ pc = "failed" /\ error = "BwMethodError"
    /\ \E i \in Ambiguous :
          Cardinality({m \in BwMethods : IsSubstring(MethodFullName[methods[i]], m)}) = 2

\* a symbol of the registry has the name of a parameter of the catalog
Collision ==
    \E i \in DOMAIN act_symbols, j \in DOMAIN catalog :
        act_symbols[i].symbol = catalog[j].name

\* C5: when a symbol of the registry has the name of a parameter of the
\* catalog, the build raises the collision error once the tree is built:
\* no parameter is declared, no proxy is created and no impact computation
\* is asked for in that build.
C5_CollisionBeforeResolution ==
    Collision =>
        /\ pc \notin {"used", "declare", "proxies", "lca", "substitute", "done"}
        /\ (pc = "failed" /\ TreeBuilt) => error = "ForbiddenParameterNames"
        /\ declared_now = {} /\ pureTechActBySymbol = << >>
        /\ lca_requests = << >> /\ lcas = << >>

C5_Witness ==
    /\ Collision
    /\ pc = "failed" /\ error = "ForbiddenParameterNames"
    /\ expected_parameter_symbols # {}

SignOf(exch) ==
    IF exch.type = "production" /\ exch.input # exch.output THEN -1 ELSE 1

\* the sum of amount x sub-expression x sign over the entries of a log
RECURSIVE SumOfContributions(_)
SumOfContributions(log) ==
    IF log = << >> THEN PZero
    ELSE PAdd(PMul(PMul(Head(log).amount, Head(log).act_expr), PInt(SignOf(Head(log).exch))),
              SumOfContributions(Tail(log)))

\* C7: the formula computed for an expanded activity of output amount k is
\* S / k, S the sum of amount x sub-expression x sign over its exchanges
\* that are traversed; the exchanges with a function for amount and those
\* of the activity with itself add nothing.  It holds of the activity of a
\* node and of every activity expanded in place, each with its own k.
C7_NormalizedByOutputAmount ==
    \A i \in DOMAIN calls :
        LET c == calls[i]
            k == db[c.act].outputAmount
        IN /\ PMul(c.value, PInt(k)) = SumOfContributions(c.log)
           /\ [j \in DOMAIN c.log |-> c.log[j].exch] = SelectSeq(db[c.act].exchanges, Traversed)

\* an activity expanded in place, of output amount 2, one of whose exchanges
\* is passed over
C7_Witness ==
    \E i \in DOMAIN calls :
        /\ calls[i].kind = "inline"
        /\ db[calls[i].act].outputAmount > 1
        /\ calls[i].value # PZero
        /\ calls[i].value # SumOfContributions(calls[i].log)
        /\ 0 < Len(calls[i].log) /\ Len(calls[i].log) < Len(db[calls[i].act].exchanges)

\* C8: an exchange of type production whose input is not its output enters
\* the model negated, any other exchange as it is, whatever its target: a
\* background activity, an activity expanded in place (the term added to the
\* formula) or a tracked activity (the amount of its child node, the term
\* being zero).
C8_AvoidedBurdenNegated ==
    \A i \in DOMAIN calls : \A j \in DOMAIN calls[i].log :
        LET l == calls[i].log[j]
            neg(e) == IF SignOf(l.exch) = -1 THEN PNeg(e) ELSE e
        IN IF l.child = 0
           THEN l.term = neg(PMul(l.exch.amount.e, l.act_expr))
           ELSE nodes[l.child].amount.e = neg(l.exch.amount.e)

\* the method of the registry a requested method stands for
MethodOf(method) ==
    CHOOSE m \in BwMethods : IsSubstring(MethodFullName[method], m)

\* C9: after a build, every node has a formula for every requested method:
\* its raw formula with every symbol of the registry replaced by the impact of
\* its activity for that method.  No symbol of the registry is left in it,
\* and what is left free is the name of a parameter of the catalog.
C9_ResolvedFormulas ==
    pc = "done" =>
        \A n \in DOMAIN nodes : \A i \in DOMAIN methods :
            LET m == methods[i]
                values == [s \in RegistrySymbols(act_symbols) |->
                              ImpactValue(KeyOf(act_symbols, s), MethodOf(m))]
            IN /\ m \in DOMAIN nodes[n].direct_impacts
               /\ nodes[n].direct_impacts[m] = XReplace(nodes[n].raw[1], values)
               /\ FreeSymbols(nodes[n].direct_impacts[m]) \cap RegistrySymbols(act_symbols) = {}
               /\ FreeSymbols(nodes[n].direct_impacts[m]) \subseteq
                      {catalog[j].name : j \in DOMAIN catalog}

\* two methods, and a node whose raw formula holds a symbol and a parameter
C9_Witness ==
    /\ pc = "done"
    /\ Len(methods) = 2
    /\ \E n \in DOMAIN nodes :
          /\ FreeSymbols(nodes[n].raw[1]) \cap RegistrySymbols(act_symbols) # {}
          /\ FreeSymbols(nodes[n].raw[1]) \ RegistrySymbols(act_symbols) # {}
          /\ nodes[n].direct_impacts[methods[1]] # nodes[n].direct_impacts[methods[2]]
          /\ nodes[n].direct_impacts[methods[2]] # PZero

Referenced ==
    UNION {FreeSymbols(nodes[n].raw[1]) : n \in DOMAIN nodes}
    \cup UNION {FreeSymbols(nodes[n].amount.e) : n \in DOMAIN nodes}

CatalogNames == {catalog[j].name : j \in DOMAIN catalog}

\* C10: the used parameters of a build are the parameters of the catalog
\* that the raw formulas and the amounts of the nodes refer to, and nothing
\* else: no symbol of the registry is among them.  The build goes on only if
\* every other free symbol is the name of exactly one parameter.
C10_UsedParameters ==
    pc \in {"declare", "proxies", "lca", "substitute", "done"} =>
        /\ used_parameters \subseteq Range(catalog)
        /\ {q.name : q \in used_parameters} = Referenced \cap CatalogNames
        /\ {q.name : q \in used_parameters} \cap RegistrySymbols(act_symbols) = {}
        /\ \A s \in Referenced \ RegistrySymbols(act_symbols) :
              Cardinality({j \in DOMAIN catalog : catalog[j].name = s}) = 1

\* a parameter that only the amount of a node refers to
C10_Witness ==
    /\ pc = "done"
    /\ RegistrySymbols(act_symbols) # {}
    /\ \E q \in used_parameters :
          q.name \notin UNION {FreeSymbols(nodes[n].raw[1]) : n \in DOMAIN nodes}

\* --------------------------------------------- two builds in one process

\* a later call of build_impact_model in the same process: the module's
\* cache and lca_algebraic's parameters stay as the earlier build left them
NextBuild ==
    /\ pc \in {"done", "failed"}
    /\ builds < MaxBuilds
    /\ \E fu \in FuNames : functional_unit' = fu
    /\ builds' = builds + 1
    /\ pc' = "start"
    /\ error' = ""
    /\ functional_unit_bw' = << >>
    /\ methods_bw' = << >>
    /\ nodes' = << >>
    /\ stack' = << >>
    /\ calls' = << >>
    /\ touched' = {}
    /\ used_parameters' = {}
    /\ declared_now' = {}
    /\ pureTechActBySymbol' = << >>
    /\ lca_requests' = << >>
    /\ lcas' = << >>
    /\ UNCHANGED <<env, methods, act_symbols, declared>>

Init2 == InitFrom({c \in Configs : \A f \in DOMAIN c \ {"fu", "zname", "foreground"} : c[f] = DefaultConfig[f]})

Next2 == Next \/ NextBuild

Spec2 == Init2 /\ [][Next2]_vars

\* C4: a build sees no symbol of an earlier build: the activities whose
\* impacts it asks for are those its own walk met.
C4_BuildLocalSymbols ==
    \A i \in DOMAIN lca_requests : lca_requests[i].acts = touched

\* ------------------------------------------- the registry on its own

RegistryNames(k) ==
    CASE k = KX -> {<<"Y">>}
      [] k = KA -> {<<"Y">>, <<"a", " ", "b">>}
      [] k = KB -> {<<"Y", "1">>, <<"Y">>, <<"a", "_", "b">>}
      [] k = KY -> {<<"Y">>, <<"a", "-", "b">>}
      [] k = KZ -> {<<"Y", "1">>, <<"Y">>}

InitRegistry ==
    /\ \E names \in [Keys -> UNION {RegistryNames(k) : k \in Keys}] :
          /\ \A k \in Keys : names[k] \in RegistryNames(k)
          /\ db = [k \in Keys |-> Activity(names[k], FALSE, 1, << >>)]
    /\ foreground = {UserDb}
    /\ catalog = << >>
    /\ fixed_params = << >>
    /\ functional_unit = << >>
    /\ methods = << >>
    /\ pc = "registry"
    /\ error = ""
    /\ builds = 0
    /\ act_symbols = << >>
    /\ functional_unit_bw = << >>
    /\ methods_bw = << >>
    /\ nodes = << >>
    /\ stack = << >>
    /\ calls = << >>
    /\ touched = {}
    /\ used_parameters = {}
    /\ declared = {}
    /\ declared_now = {}
    /\ pureTechActBySymbol = << >>
    /\ lca_requests = << >>
    /\ lcas = << >>

\* a call of act_to_symbol(sub_act)
CallActToSymbol ==
    /\ pc = "registry"
    /\ \E k \in Keys :
          /\ act_symbols' = act_to_symbol(act_symbols, k, db[k].name, TRUE)
          /\ touched' = touched \cup {k}
    /\ UNCHANGED <<env, args, pc, error, builds, functional_unit_bw, methods_bw,
                   nodes, stack, calls, tail>>

SpecRegistry == InitRegistry /\ [][CallActToSymbol]_vars

\* C3: the registry gives distinct keys distinct symbols, also when the names
\* they derive from collide; a call for a key it holds leaves it as it is; and
\* the symbol of a key never changes nor goes away in a later call.
C3_DistinctStableSymbols ==
    /\ [](\A i, j \in DOMAIN act_symbols :
             (act_symbols[i].symbol = act_symbols[j].symbol
                 \/ act_symbols[i].key = act_symbols[j].key) => i = j)
    /\ [](touched = RegistryKeys(act_symbols))
    /\ [][/\ \A k \in RegistryKeys(act_symbols) :
               /\ k \in RegistryKeys(act_symbols')
               /\ SymbolOf(act_symbols', k) = SymbolOf(act_symbols, k)
          /\ touched' = touched => act_symbols' = act_symbols]_vars

\* three keys whose names give one slug, and a fourth whose own name is the
\* slug a suffix gave
C3_Witness ==
    /\ Len(act_symbols) >= 4
    /\ \E i, j, k \in DOMAIN act_symbols :
          /\ i < j /\ j < k
          /\ node_name_to_symbol_name(db[act_symbols[i].key].name)
                 = node_name_to_symbol_name(db[act_symbols[j].key].name)
          /\ node_name_to_symbol_name(db[act_symbols[j].key].name)
                 = node_name_to_symbol_name(db[act_symbols[k].key].name)
    /\ \E i \in DOMAIN act_symbols :
          /\ db[act_symbols[i].key].name = <<"Y", "1">>
          /\ act_symbols[i].symbol # <<"Y", "1">>
====
